---- MODULE Spec2Model ----
(***************************************************************************)
(* A model of the notebook "09 Build an autoencoder.ipynb": the minibatch  *)
(* Loader (class Loader) and the matrix-factorisation autoencoder (class   *)
(* MFAE: forward pass __call__ and loss).                                  *)
(*                                                                         *)
(* Several state machines share the module.  Spec drives one Loader object *)
(* through __iter__ / __next__ calls; SpecMFAE drives one MFAE object      *)
(* through forward passes, loss evaluations, optimizer steps and changes   *)
(* of frac; SpecCode runs the preprocessing cells that append the item     *)
(* code; SpecTrain runs trainer.run with the two EPOCH_COMPLETED handlers; *)
(* SpecTwo drives the two Loader objects of the notebook in any            *)
(* interleaving.  The variables of the machines that are not running keep  *)
(* their initial values.                                                   *)
(*                                                                         *)
(* Real numbers are modelled exactly, as normalised fractions <<num, den>> *)
(* (float32 rounding is not modelled).                                     *)
(***************************************************************************)
EXTENDS Integers, Sequences, FiniteSets

VARIABLES
    \* ---- Loader object ----
    pairs0,        \* the (x row, y row) pairs handed to Loader.__init__,
                   \* as a multiset (history)
    x, y,          \* self.x, self.y
    batchsize,     \* self.batchsize
    do_shuffle,    \* self.do_shuffle
    current,       \* self.current (class attribute 0 until first written)
    perm0,         \* the permutation shuffle(..., random_state=0) applies
    out,           \* batches yielded since the cursor was last at 0 (history)
    stopped,       \* the last __next__ raised StopIteration
    again,         \* so did the __next__ before it (history)
    first,         \* batches of the first traversal that ran to StopIteration
    hasFirst,      \* such a traversal has completed
    iterAt,        \* when the last __iter__ was called: none/fresh/mid/done
    iterRet,       \* the object the last __iter__ returned
    lop,           \* the last Loader operation
    \* ---- MFAE object ----
    encoder_bias, encoder_vect, decoder_bias, decoder_vect,
    c_vector,      \* self.c_vector
    frac,          \* model.frac, in tenths
    indices,       \* the batch of the last forward pass
    draws,         \* torch.rand outcomes of the last forward pass, in tenths
    log_odds,      \* result of the last forward pass
    target,        \* target of the last loss call
    total,         \* result of the last loss call
    mop,           \* the last MFAE operation: forward, loss, step, or idle
                   \* (nothing called yet, or no call in progress)
    \* ---- preprocessing cells ----
    train_x,       \* the feature rows <<user id, item id>>, then with the
                   \* item code as a third column
    train_y,       \* the rating of each row, in half points
    cop,           \* the last preprocessing step: load or code
    \* ---- trainer.run(train_loader, max_epochs) ----
    pc,            \* where the run is: off, start, train, train_fwd,
                   \* train_loss, eval, eval_fwd, done
    epoch,         \* trainer.state.epoch
    evals,         \* evaluat.run calls that have returned (history)
    \* ---- the two Loader objects of the notebook ----
    Loader_current,\* the class attribute Loader.current
    loaders,       \* per object: x, y, batchsize, whether the object has
                   \* its own attribute current (own) and its value, the
                   \* batches yielded since the cursor was last 0 (out,
                   \* history), whether the last __next__ raised (stopped)
    call           \* the last call: the object and the method

loaderVars == <<pairs0, x, y, batchsize, do_shuffle, current, perm0, out,
                stopped, again, first, hasFirst, iterAt, iterRet, lop>>
tableVars == <<encoder_bias, encoder_vect, decoder_bias, decoder_vect>>
mfaeVars == <<encoder_bias, encoder_vect, decoder_bias, decoder_vect,
              c_vector, frac, indices, draws, log_odds, target, total, mop>>
codeVars == <<train_x, train_y, cop>>
trainVars == <<pc, epoch, evals>>
twoVars == <<Loader_current, loaders, call>>
auxVars == <<codeVars, trainVars, twoVars>>
vars == <<loaderVars, mfaeVars, auxVars>>

(***************************************************************************)
(* Bounds of the model and input domains.                                  *)
(***************************************************************************)
MaxN == 3          \* longest event array given to a Loader
MaxB == 3          \* largest batch size
MaxShufN == 2      \* longest event array given to a shuffling Loader
MaxUser == 1       \* user ids are 0..MaxUser
Ratings == {0, 1}  \* rating values in the target column

UserIds == 0..MaxUser

Min(a, b) == IF a < b THEN a ELSE b

Perms(n) == {p \in [1..n -> 1..n] : \A i, j \in 1..n : p[i] = p[j] => i = j}

(***************************************************************************)
(* Loader                                                                  *)
(***************************************************************************)
\* Object identities: the one Loader object, and no object.
LoaderId == "self"
NoObject == "none"

\* a[i:j] on a numpy array: rows i..j-1 (0-based), clamped to the array.
Slice(a, i, j) == SubSeq(a, i + 1, Min(j, Len(a)))

\* Row p[i] of s becomes row i.
Permute(s, p) == [i \in 1..Len(s) |-> s[p[i]]]

\* A mutation of shuffle: only the first array is permuted.
ShuffleFirstOnly(xx, yy, p) == <<Permute(xx, p), yy>>

\* sklearn.utils.shuffle(xx, yy): one permutation applied to both arrays.
shuffle(xx, yy, p) == <<Permute(xx, p), Permute(yy, p)>>

\* A mutation of the exhaustion test: stop only when no row is left.
ExhaustedWhenEmpty == current >= Len(y)

\* `if self.current + n >= len(self.y)` in __next__.
Exhausted == current + batchsize >= Len(y)

\* Loader.__len__: int(len(self.x) / self.batchsize).
Loader_len == Len(x) \div batchsize

\* The multiset of (xx[i], yy[i]) pairs: each pair with its number of rows.
PairBag(xx, yy) ==
    [pr \in {<<xx[i], yy[i]>> : i \in 1..Len(xx)} |->
        Cardinality({i \in 1..Len(xx) : <<xx[i], yy[i]>> = pr})]

\* Loader.__init__(x_in, y_in, batchsize, do_shuffle); with do_shuffle the
\* arrays are shuffled once, by a permutation p drawn without a seed.
LoaderInit ==
    /\ \E n \in 0..MaxN :
         \E x_in \in [1..n -> UserIds], y_in \in [1..n -> Ratings] :
            /\ pairs0 = PairBag(x_in, y_in)
            /\ do_shuffle \in (IF n <= MaxShufN THEN BOOLEAN ELSE {FALSE})
            /\ IF do_shuffle
               THEN /\ perm0 \in Perms(n)
                    /\ \E p \in Perms(n) :
                         /\ x = shuffle(x_in, y_in, p)[1]
                         /\ y = shuffle(x_in, y_in, p)[2]
               ELSE /\ perm0 = [i \in 1..n |-> i]
                    /\ x = x_in
                    /\ y = y_in
    /\ batchsize \in 1..MaxB
    /\ current = 0
    /\ out = << >>
    /\ stopped = FALSE
    /\ again = FALSE
    /\ first = << >>
    /\ hasFirst = FALSE
    /\ iterAt = "none"
    /\ iterRet = NoObject
    /\ lop = "init"

\* A mutation of __iter__: the cursor is left where it is.
Loader_iter_keeps_cursor ==
    /\ x' = (IF do_shuffle THEN shuffle(x, y, perm0)[1] ELSE x)
    /\ y' = (IF do_shuffle THEN shuffle(x, y, perm0)[2] ELSE y)
    /\ out' = << >>
    /\ stopped' = FALSE
    /\ again' = FALSE
    /\ iterAt' = (IF stopped THEN "done" ELSE IF current = 0 THEN "fresh" ELSE "mid")
    /\ iterRet' = LoaderId
    /\ lop' = "iter"
    /\ UNCHANGED <<pairs0, batchsize, do_shuffle, current, perm0, first, hasFirst>>

\* Loader.__iter__
Loader_iter ==
    /\ x' = (IF do_shuffle THEN shuffle(x, y, perm0)[1] ELSE x)
    /\ y' = (IF do_shuffle THEN shuffle(x, y, perm0)[2] ELSE y)
    /\ current' = 0
    /\ out' = << >>
    /\ stopped' = FALSE
    /\ again' = FALSE
    /\ iterAt' = (IF stopped THEN "done" ELSE IF current = 0 THEN "fresh" ELSE "mid")
    /\ iterRet' = LoaderId
    /\ lop' = "iter"
    /\ UNCHANGED <<pairs0, batchsize, do_shuffle, perm0, first, hasFirst>>

\* A mutation of __next__: the cursor is advanced before the exhaustion
\* test, so a call that raises StopIteration moves it too.
Loader_next_stop_advances ==
    /\ Exhausted
    /\ current' = current + batchsize
    /\ stopped' = TRUE
    /\ again' = stopped
    /\ first' = (IF hasFirst THEN first ELSE out)
    /\ hasFirst' = TRUE
    /\ lop' = "next"
    /\ UNCHANGED <<pairs0, x, y, batchsize, do_shuffle, perm0, out,
                   iterAt, iterRet>>

\* Loader.__next__, the branch that raises StopIteration.
Loader_next_stop ==
    /\ Exhausted
    /\ stopped' = TRUE
    /\ again' = stopped
    /\ first' = (IF hasFirst THEN first ELSE out)
    /\ hasFirst' = TRUE
    /\ lop' = "next"
    /\ UNCHANGED <<pairs0, x, y, batchsize, do_shuffle, current, perm0, out,
                   iterAt, iterRet>>

\* Loader.__next__, the branch that returns (xs, ys).
Loader_next_batch ==
    /\ ~Exhausted
    /\ LET n == batchsize
           i == current
           xs == Slice(x, i, i + n)
           ys == Slice(y, i, i + n)
       IN  /\ out' = Append(out, [off |-> i, xs |-> xs, ys |-> ys])
           /\ current' = current + n
    /\ stopped' = FALSE
    /\ again' = FALSE
    /\ lop' = "next"
    /\ UNCHANGED <<pairs0, x, y, batchsize, do_shuffle, perm0, first, hasFirst,
                   iterAt, iterRet>>

Loader_next == Loader_next_stop \/ Loader_next_batch

\* A Loader on which nothing is called (used while the MFAE machine runs).
LoaderIdle ==
    /\ pairs0 = << >> /\ x = << >> /\ y = << >>
    /\ batchsize = 1 /\ do_shuffle = FALSE /\ current = 0 /\ perm0 = << >>
    /\ out = << >> /\ stopped = FALSE /\ again = FALSE
    /\ first = << >> /\ hasFirst = FALSE
    /\ iterAt = "none" /\ iterRet = NoObject /\ lop = "init"

(***************************************************************************)
(* Exact rational arithmetic: a number is <<num, den>> with den > 0 and    *)
(* gcd(num, den) = 1.                                                      *)
(***************************************************************************)
Abs(a) == IF a < 0 THEN -a ELSE a

RECURSIVE GCD(_, _)
GCD(a, b) == IF b = 0 THEN a ELSE GCD(b, a % b)

Rat(n, d) ==
    LET g == GCD(Abs(n), d) IN <<n \div g, d \div g>>

RInt(n) == <<n, 1>>
RAdd(a, b) == Rat(a[1] * b[2] + b[1] * a[2], a[2] * b[2])
RSub(a, b) == Rat(a[1] * b[2] - b[1] * a[2], a[2] * b[2])
RMul(a, b) == Rat(a[1] * b[1], a[2] * b[2])
RDivInt(a, n) == Rat(a[1], a[2] * n)
RNonNeg(a) == a[1] >= 0

RECURSIVE RSum(_, _, _)
\* f[lo] + ... + f[hi] over rationals
RSum(f, lo, hi) == IF lo > hi THEN RInt(0) ELSE RAdd(f[lo], RSum(f, lo + 1, hi))

RECURSIVE ISum(_, _, _)
\* f[lo] + ... + f[hi] over integers
ISum(f, lo, hi) == IF lo > hi THEN 0 ELSE f[lo] + ISum(f, lo + 1, hi)

(***************************************************************************)
(* MFAE                                                                    *)
(***************************************************************************)
MaxBatch == 2      \* longest batch handed to a forward pass
n_item == 2        \* number of distinct items; item ids are 0..n_item-1
KDim == 1          \* k, the embedding dimension
RatingBase == 10   \* item_code = item_id * 10 + rating
Seeds == {0, 1}    \* the table contents the model tries
Draws == {0, 7}    \* outcomes of torch.rand, in tenths: 0.0 and 0.7
FracTrain == 5     \* frac = 0.5
FracEval == 0      \* frac = 0.0
CVals == {0, 1}    \* values of c_vector
EventRatings == {1} \* ratings of the events handed to a forward pass

ItemIds == 0..(n_item - 1)
n_item_enc == n_item * RatingBase + 1
n_item_dec == n_item + 1

\* One row of the feature array: columns 0 (user), 1 (item) and the rating
\* the code column 4 was derived from.
Events == [user : UserIds, item : ItemIds, rating : EventRatings]
Batches == UNION {[1..n -> Events] : n \in 1..MaxBatch}

\* item_code = x[:, 1] * 10 + y[:, 0].astype(int): column 4 of the features.
item_code(e) == e.item * RatingBase + e.rating

\* Contents of the four tables, one choice per seed; entries in -4..4.
TableEntry(s, t, r, d) == ((s * 3 + t * 5 + r * 2 + d) % 9) - 4
Tables(s) ==
    [eb |-> [r \in 0..(n_item_enc - 1) |-> [d \in 1..1 |-> TableEntry(s, 0, r, d)]],
     ev |-> [r \in 0..(n_item_enc - 1) |-> [d \in 1..KDim |-> TableEntry(s, 1, r, d)]],
     db |-> [r \in 0..(n_item_dec - 1) |-> [d \in 1..1 |-> TableEntry(s, 2, r, d)]],
     dv |-> [r \in 0..(n_item_dec - 1) |-> [d \in 1..KDim |-> TableEntry(s, 3, r, d)]]]

\* The table contents by seed.
TableChoices == [s \in Seeds |-> Tables(s)]

NoValue == <<0, 0>>   \* no result yet (not a rational: its denominator is 0)

MFAEInit ==
    /\ \E s \in Seeds :
         /\ encoder_bias = TableChoices[s].eb
         /\ encoder_vect = TableChoices[s].ev
         /\ decoder_bias = TableChoices[s].db
         /\ decoder_vect = TableChoices[s].dv
    /\ c_vector \in CVals
    /\ frac = FracTrain
    /\ indices = << >>
    /\ draws = << >>
    /\ log_odds = << >>
    /\ target = << >>
    /\ total = NoValue
    /\ mop = "idle"

\* An MFAE on which nothing is called (used while the Loader machine runs).
MFAEIdle ==
    /\ encoder_bias = TableChoices[0].eb
    /\ encoder_vect = TableChoices[0].ev
    /\ decoder_bias = TableChoices[0].db
    /\ decoder_vect = TableChoices[0].dv
    /\ c_vector = 0
    /\ frac = FracTrain
    /\ indices = << >>
    /\ draws = << >>
    /\ log_odds = << >>
    /\ target = << >>
    /\ total = NoValue
    /\ mop = "idle"

(***************************************************************************)
(* MFAE.__call__, step by step.  A matrix is a function from row index to  *)
(* a row, a row a function from 1..columns to a number; a bias table is a  *)
(* one-column matrix, as in the code.                                      *)
(***************************************************************************)
RECURSIVE SeqMax(_)
\* indices[:, 0].max() for a non-empty batch
SeqMax(s) ==
    IF Len(s) = 1 THEN s[1]
    ELSE IF s[1] > SeqMax(Tail(s)) THEN s[1] ELSE SeqMax(Tail(s))

\* A mutation of a[mask]: the mask is ignored.
MaskedKeepsAll(a, m) == a

RECURSIVE Masked(_, _)
\* a[mask]: the entries of a whose mask bit is set, in order
Masked(a, m) ==
    IF a = << >> THEN << >>
    ELSE (IF m[1] THEN <<a[1]>> ELSE << >>) \o Masked(Tail(a), Tail(m))

\* idx: the (row, col) pairs indices[:, [0, 4]]
idx(ind) == [i \in 1..Len(ind) |-> [row |-> ind[i].user, col |-> item_code(ind[i])]]

\* A mutation of n_user_max: the aggregate is sized by the number of users
\* of the data set, not by the largest user id of the batch.
NUserOfDataSet(ind) == MaxUser + 1

\* n_user_max = indices[:, 0].max() + 1
n_user_max(ind) == SeqMax([i \in 1..Len(ind) |-> ind[i].user]) + 1

values(ind) == [i \in 1..Len(ind) |-> 1]

\* A mutation of count: every user is divided by the size of the batch.
CountWholeBatch(ind) == [u \in 0..(n_user_max(ind) - 1) |-> 1 + Len(ind)]

\* 1 + torch.bincount(indices[:, 0], minlength=n_user_max)
count(ind) ==
    [u \in 0..(n_user_max(ind) - 1) |->
        1 + Cardinality({i \in 1..Len(ind) : ind[i].user = u})]

\* mask = torch.rand(len(indices)) > self.frac
Mask(d) == [i \in 1..Len(d) |-> d[i] > frac]

\* torch_sparse.spmm(index, value, m, matrix): row u of the result is the
\* sum over the entries (u, col) of value * matrix[col].
spmm(index, value, m, matrix) ==
    [u \in 0..(m - 1) |->
        [d \in DOMAIN matrix[0] |->
            ISum([j \in 1..Len(index) |->
                    IF index[j].row = u THEN value[j] * matrix[index[j].col][d] ELSE 0],
                 1, Len(index))]]

user_bias_sum(ind, d) ==
    spmm(Masked(idx(ind), Mask(d)), Masked(values(ind), Mask(d)), n_user_max(ind),
         encoder_bias)
user_vect_sum(ind, d) ==
    spmm(Masked(idx(ind), Mask(d)), Masked(values(ind), Mask(d)), n_user_max(ind),
         encoder_vect)

\* sum / count[:, None]
user_bias_mean(ind, d) ==
    LET sum == user_bias_sum(ind, d)
        cnt == count(ind)
    IN  [u \in 0..(n_user_max(ind) - 1) |-> [j \in 1..1 |-> Rat(sum[u][j], cnt[u])]]
user_vect_mean(ind, d) ==
    LET sum == user_vect_sum(ind, d)
        cnt == count(ind)
    IN  [u \in 0..(n_user_max(ind) - 1) |-> [j \in 1..KDim |-> Rat(sum[u][j], cnt[u])]]

\* A mutation of the decoder lookup: the user row is looked up by the
\* event's position in the batch, as if the aggregate had one row per event.
UserIdxByPosition(ind) == [i \in 1..Len(ind) |-> Min(i - 1, n_user_max(ind) - 1)]

\* A mutation of the decoder lookup: the user row is looked up by item id.
UserIdxByItem(ind) == [i \in 1..Len(ind) |-> Min(ind[i].item, n_user_max(ind) - 1)]

\* user_idx = indices[:, 0]; item_idx = indices[:, 1]
user_idx(ind) == [i \in 1..Len(ind) |-> ind[i].user]
item_idx(ind) == [i \in 1..Len(ind) |-> ind[i].item]

\* (item_vect * user_vect).sum(dim=1)
RowDot(item_row, user_row) ==
    RSum([j \in 1..KDim |-> RMul(RInt(item_row[j]), user_row[j])], 1, KDim)

\* MFAE.__call__: log_odds = user_bias + item_bias + user_item
MFAE_call(ind, d) ==
    LET ubm == user_bias_mean(ind, d)
        uvm == user_vect_mean(ind, d)
        uidx == user_idx(ind)
        iidx == item_idx(ind)
        user_bias == [i \in 1..Len(ind) |-> ubm[uidx[i]]]
        user_vect == [i \in 1..Len(ind) |-> uvm[uidx[i]]]
        item_bias == [i \in 1..Len(ind) |-> decoder_bias[iidx[i]]]
        item_vect == [i \in 1..Len(ind) |-> decoder_vect[iidx[i]]]
        user_item == [i \in 1..Len(ind) |-> RowDot(item_vect[i], user_vect[i])]
    IN  [i \in 1..Len(ind) |->
            RAdd(RAdd(user_bias[i][1], RInt(item_bias[i][1])), user_item[i])]

\* A mutation of the forward pass: it leaves the model in evaluation mode.
ForwardWritesFrac ==
    /\ mop \notin {"forward", "loss"}
    /\ \E b \in Batches :
         \E d \in [1..Len(b) -> Draws] :
            /\ indices' = b
            /\ draws' = d
            /\ log_odds' = MFAE_call(b, d)
    /\ target' = << >>
    /\ total' = NoValue
    /\ mop' = "forward"
    /\ frac' = FracEval
    /\ UNCHANGED <<tableVars, c_vector, loaderVars>>

\* One forward pass on some batch, with some outcome of torch.rand.
Forward ==
    /\ mop \notin {"forward", "loss"}
    /\ \E b \in Batches :
         \E d \in [1..Len(b) -> Draws] :
            /\ indices' = b
            /\ draws' = d
            /\ log_odds' = MFAE_call(b, d)
    /\ target' = << >>
    /\ total' = NoValue
    /\ mop' = "forward"
    /\ UNCHANGED <<tableVars, c_vector, frac, loaderVars>>

(***************************************************************************)
(* MFAE.loss                                                               *)
(***************************************************************************)
\* The sum of the squares of the entries of one row.
RowSquares(row) == ISum([j \in DOMAIN row |-> row[j] * row[j]], 1, Len(row))

RECURSIVE SumSquares(_, _, _)
\* The sum of array[r][j]^2 over the rows lo..hi, computed by halves.
SumSquares(array, lo, hi) ==
    IF lo > hi THEN 0
    ELSE IF lo = hi THEN RowSquares(array[lo])
    ELSE LET mid == (lo + hi) \div 2
         IN  SumSquares(array, lo, mid) + SumSquares(array, mid + 1, hi)

\* l2_regularize(array) = torch.sum(array ** 2.0); rows are numbered from 0
l2_regularize(array) == SumSquares(array, 0, Cardinality(DOMAIN array) - 1)

\* F.mse_loss(input, target): the mean of the squared differences
mse_loss(input, tgt) ==
    RDivInt(RSum([i \in 1..Len(input) |->
                    RMul(RSub(input[i], RInt(tgt[i])), RSub(input[i], RInt(tgt[i])))],
                 1, Len(input)),
            Len(input))

\* The fields of the MFAE object that loss reads through self.
Self ==
    [encoder_bias |-> encoder_bias, encoder_vect |-> encoder_vect,
     decoder_bias |-> decoder_bias, decoder_vect |-> decoder_vect,
     c_vector |-> c_vector]

\* A mutation of loss: the bias tables are regularised too.
LossWithBiasPenalty(self, lo, tgt) ==
    LET loss_mse == mse_loss(lo, tgt)
        prior_ie == (l2_regularize(self.encoder_vect)
                     + l2_regularize(self.encoder_bias)) * self.c_vector
        prior_id == (l2_regularize(self.decoder_vect)
                     + l2_regularize(self.decoder_bias)) * self.c_vector
    IN  RAdd(RAdd(loss_mse, RInt(prior_ie)), RInt(prior_id))

\* MFAE.loss(self, log_odds, target)
MFAE_loss(self, lo, tgt) ==
    LET loss_mse == mse_loss(lo, tgt)
        prior_ie == l2_regularize(self.encoder_vect) * self.c_vector
        prior_id == l2_regularize(self.decoder_vect) * self.c_vector
    IN  RAdd(RAdd(loss_mse, RInt(prior_ie)), RInt(prior_id))

\* The trainer's loss call on the predictions of the forward pass just made,
\* with the batch's ratings as target.
Loss ==
    /\ mop = "forward"
    /\ target' = [i \in 1..Len(indices) |-> indices[i].rating]
    /\ total' = MFAE_loss(Self, log_odds, target')
    /\ mop' = "loss"
    /\ UNCHANGED <<tableVars, c_vector, frac, indices, draws, log_odds, loaderVars>>

\* optimizer.step(): the external optimizer writes the four tables; the
\* locals of the finished update are gone.
OptimizerStep ==
    /\ mop = "loss"
    /\ \E s \in Seeds :
         /\ encoder_bias' = TableChoices[s].eb
         /\ encoder_vect' = TableChoices[s].ev
         /\ decoder_bias' = TableChoices[s].db
         /\ decoder_vect' = TableChoices[s].dv
    /\ indices' = << >> /\ draws' = << >> /\ log_odds' = << >>
    /\ target' = << >> /\ total' = NoValue
    /\ mop' = "step"
    /\ UNCHANGED <<c_vector, frac, loaderVars>>

\* The evaluator's inference step returns its predictions; its locals are gone.
EndInference ==
    /\ mop = "forward"
    /\ indices' = << >> /\ draws' = << >> /\ log_odds' = << >>
    /\ target' = << >> /\ total' = NoValue
    /\ mop' = "idle"
    /\ UNCHANGED <<tableVars, c_vector, frac, loaderVars>>

\* model.frac = 0.0 / model.frac = 0.5 in log_validation_results
SetFrac ==
    /\ mop \notin {"forward", "loss"}
    /\ frac' = (IF frac = FracTrain THEN FracEval ELSE FracTrain)
    /\ indices' = << >> /\ draws' = << >> /\ log_odds' = << >>
    /\ target' = << >> /\ total' = NoValue
    /\ mop' = "idle"
    /\ UNCHANGED <<tableVars, c_vector, loaderVars>>

(***************************************************************************)
(* The preprocessing cells: the item code column is appended to the        *)
(* feature rows.                                                           *)
(***************************************************************************)
MaxLevel == 10     \* largest integer rating level in the data

\* Ratings of the data, in half points: 0.0, 0.5, ..., MaxLevel + 0.5.
HalfPoints == 0..(2 * MaxLevel + 1)

\* Item ids of the data: the indices of the decoder tables.
DecoderIds == 0..(n_item_dec - 1)

\* y.astype(int) on a non-negative rating given in half points: truncation.
astype_int(h) == h \div 2

\* The arrays np.load hands over: one or two rows.
CodeLoad ==
    /\ \E n \in 1..2 :
         /\ train_x \in [1..n -> {<<0, it>> : it \in DecoderIds}]
         /\ train_y \in [1..n -> HalfPoints]
    /\ cop = "load"

\* A mutation of the item code: the item id is shifted by five, the number
\* of rating levels the data uses.
ItemCodeTimesFive(xrow, yrow) == xrow[2] * 5 + astype_int(yrow)

\* item_code = train_x[:, 1] * 10 + train_y[:, 0].astype(int), for one row
ItemCodeOfRow(xrow, yrow) ==
    item_code([item |-> xrow[2], rating |-> astype_int(yrow)])

\* train_x = np.hstack((train_x, item_code[:, None]))
AppendItemCode ==
    /\ cop = "load"
    /\ train_x' = [i \in 1..Len(train_x) |->
                      Append(train_x[i], ItemCodeOfRow(train_x[i], train_y[i]))]
    /\ cop' = "code"
    /\ UNCHANGED <<train_y, loaderVars, mfaeVars, trainVars, twoVars>>

\* No preprocessing in progress (used while another machine runs).
CodeIdle == train_x = << >> /\ train_y = << >> /\ cop = "load"

(***************************************************************************)
(* The training run: trainer.run(train_loader, max_epochs) with            *)
(* log_training_loss and log_validation_results attached to                *)
(* EPOCH_COMPLETED.  The engine iterates the loader it is given; how many  *)
(* batches a traversal yields is left open here.                           *)
(***************************************************************************)
MaxEpochs == 2     \* max_epochs of trainer.run

\* No run in progress (used while another machine runs).
TrainIdle == pc = "off" /\ epoch = 0 /\ evals = 0

\* The state before trainer.run is called.
TrainInit == pc = "start" /\ epoch = 0 /\ evals = 0

\* trainer.run: the first epoch begins.
TrainerRun ==
    /\ pc = "start"
    /\ pc' = "train"
    /\ epoch' = 1
    /\ UNCHANGED <<evals, mfaeVars, loaderVars>>

\* The trainer's update, y_pred = model(x), on the next batch of the epoch.
TrainForward ==
    /\ pc = "train"
    /\ Forward
    /\ pc' = "train_fwd"
    /\ UNCHANGED <<epoch, evals>>

\* The trainer's update, loss = loss_fn(y_pred, y).
TrainLoss ==
    /\ pc = "train_fwd"
    /\ Loss
    /\ pc' = "train_loss"
    /\ UNCHANGED <<epoch, evals>>

\* The trainer's update, optimizer.step(); the iteration is over.
TrainStep ==
    /\ pc = "train_loss"
    /\ OptimizerStep
    /\ pc' = "train"
    /\ UNCHANGED <<epoch, evals>>

\* The epoch's traversal ends and EPOCH_COMPLETED fires:
\* log_training_loss, then log_validation_results up to the start of
\* evaluat.run(test_loader), that is model.frac = 0.0.
ValidationBegin ==
    /\ pc = "train"
    /\ frac' = FracEval
    /\ indices' = << >> /\ draws' = << >> /\ log_odds' = << >>
    /\ target' = << >> /\ total' = NoValue
    /\ mop' = "idle"
    /\ pc' = "eval"
    /\ UNCHANGED <<epoch, evals, tableVars, c_vector, loaderVars>>

\* The evaluator's inference, y_pred = model(x), on the next test batch.
EvalForward ==
    /\ pc = "eval"
    /\ Forward
    /\ pc' = "eval_fwd"
    /\ UNCHANGED <<epoch, evals>>

\* The evaluator's inference returns (y_pred, y).
EvalReturn ==
    /\ pc = "eval_fwd"
    /\ EndInference
    /\ pc' = "eval"
    /\ UNCHANGED <<epoch, evals>>

\* A mutation of log_validation_results: frac is not restored.
ValidationEndKeepsFrac ==
    /\ pc = "eval"
    /\ evals' = evals + 1
    /\ IF epoch < MaxEpochs
       THEN epoch' = epoch + 1 /\ pc' = "train"
       ELSE epoch' = epoch /\ pc' = "done"
    /\ UNCHANGED <<mfaeVars, loaderVars>>

\* evaluat.run returns; the rest of log_validation_results, that is
\* model.frac = 0.5; then the next epoch begins or the run completes.
ValidationEnd ==
    /\ pc = "eval"
    /\ frac' = FracTrain
    /\ evals' = evals + 1
    /\ IF epoch < MaxEpochs
       THEN epoch' = epoch + 1 /\ pc' = "train"
       ELSE epoch' = epoch /\ pc' = "done"
    /\ UNCHANGED <<tableVars, c_vector, indices, draws, log_odds, target, total,
                   mop, loaderVars>>

(***************************************************************************)
(* train_loader and test_loader: two objects of class Loader, built with   *)
(* do_shuffle=False.  `current = 0` in the class body is an attribute of   *)
(* the class; self.current reads the object's own attribute when it has    *)
(* one and the class attribute otherwise, and an assignment to             *)
(* self.current creates or writes the object's own attribute.              *)
(***************************************************************************)
LoaderNames == {"train_loader", "test_loader"}

\* Loader(x, y, batchsize, do_shuffle=False) over n rows; a row of x is its
\* row number, a row of y the row number's parity.
NewLoader(n, b) ==
    [x |-> [i \in 1..n |-> i - 1], y |-> [i \in 1..n |-> (i - 1) % 2],
     batchsize |-> b, own |-> FALSE, current |-> 0, out |-> << >>,
     stopped |-> FALSE]

TwoInit ==
    /\ Loader_current = 0
    /\ \E nt, ne \in 0..MaxN : \E bt, be \in 1..MaxB :
         loaders = [l \in LoaderNames |->
                      IF l = "train_loader" THEN NewLoader(nt, bt)
                      ELSE NewLoader(ne, be)]
    /\ call = [obj |-> NoObject, op |-> "init"]

\* No Loader pair in use (used while another machine runs).
TwoIdle ==
    /\ Loader_current = 0
    /\ loaders = << >>
    /\ call = [obj |-> NoObject, op |-> "init"]

\* The value self.current reads on object l.
ReadCurrent(l) == IF loaders[l].own THEN loaders[l].current ELSE Loader_current

\* A mutation of self.current = v: the class attribute is assigned.
WriteCurrentOnClass(l, v) == [objs |-> loaders, cls |-> v]

\* self.current = v on object l: the object's own attribute is assigned.
WriteCurrent(l, v) ==
    [objs |-> [loaders EXCEPT ![l].own = TRUE, ![l].current = v],
     cls |-> Loader_current]

\* Loader.__iter__ on object l (do_shuffle is False)
Two_iter(l) ==
    /\ LET w == WriteCurrent(l, 0) IN
         /\ loaders' = [w.objs EXCEPT ![l].out = << >>, ![l].stopped = FALSE]
         /\ Loader_current' = w.cls
    /\ call' = [obj |-> l, op |-> "iter"]

\* Loader.__next__ on object l, the branch that raises StopIteration
Two_next_stop(l) ==
    /\ ReadCurrent(l) + loaders[l].batchsize >= Len(loaders[l].y)
    /\ loaders' = [loaders EXCEPT ![l].stopped = TRUE]
    /\ call' = [obj |-> l, op |-> "next"]
    /\ UNCHANGED Loader_current

\* Loader.__next__ on object l, the branch that returns (xs, ys)
Two_next_batch(l) ==
    /\ ReadCurrent(l) + loaders[l].batchsize < Len(loaders[l].y)
    /\ LET n == loaders[l].batchsize
           i == ReadCurrent(l)
           xs == Slice(loaders[l].x, i, i + n)
           ys == Slice(loaders[l].y, i, i + n)
           w == WriteCurrent(l, i + n)
       IN  /\ loaders' = [w.objs EXCEPT
                            ![l].out = Append(@, [off |-> i, xs |-> xs, ys |-> ys]),
                            ![l].stopped = FALSE]
           /\ Loader_current' = w.cls
    /\ call' = [obj |-> l, op |-> "next"]

AuxIdle == CodeIdle /\ TrainIdle /\ TwoIdle

(***************************************************************************)
(* Specifications                                                          *)
(***************************************************************************)
Init == LoaderInit /\ MFAEIdle /\ AuxIdle
Next ==
    \/ Loader_iter /\ UNCHANGED <<mfaeVars, auxVars>>
    \/ Loader_next_stop /\ UNCHANGED <<mfaeVars, auxVars>>
    \/ Loader_next_batch /\ UNCHANGED <<mfaeVars, auxVars>>
Spec == Init /\ [][Next]_vars

InitMFAE == MFAEInit /\ LoaderIdle /\ AuxIdle
NextMFAE ==
    \/ Forward /\ UNCHANGED auxVars
    \/ Loss /\ UNCHANGED auxVars
    \/ OptimizerStep /\ UNCHANGED auxVars
    \/ EndInference /\ UNCHANGED auxVars
    \/ SetFrac /\ UNCHANGED auxVars
SpecMFAE == InitMFAE /\ [][NextMFAE]_vars

InitCode == CodeLoad /\ LoaderIdle /\ MFAEIdle /\ TrainIdle /\ TwoIdle
NextCode == AppendItemCode
SpecCode == InitCode /\ [][NextCode]_vars

InitTrain == TrainInit /\ MFAEIdle /\ LoaderIdle /\ CodeIdle /\ TwoIdle
NextTrain ==
    \/ TrainerRun /\ UNCHANGED <<codeVars, twoVars>>
    \/ TrainForward /\ UNCHANGED <<codeVars, twoVars>>
    \/ TrainLoss /\ UNCHANGED <<codeVars, twoVars>>
    \/ TrainStep /\ UNCHANGED <<codeVars, twoVars>>
    \/ ValidationBegin /\ UNCHANGED <<codeVars, twoVars>>
    \/ EvalForward /\ UNCHANGED <<codeVars, twoVars>>
    \/ EvalReturn /\ UNCHANGED <<codeVars, twoVars>>
    \/ ValidationEnd /\ UNCHANGED <<codeVars, twoVars>>
SpecTrain == InitTrain /\ [][NextTrain]_vars

InitTwo == TwoInit /\ LoaderIdle /\ MFAEIdle /\ CodeIdle /\ TrainIdle
NextTwo ==
    \/ \E l \in LoaderNames :
         Two_iter(l) /\ UNCHANGED <<loaderVars, mfaeVars, codeVars, trainVars>>
    \/ \E l \in LoaderNames :
         Two_next_stop(l) /\ UNCHANGED <<loaderVars, mfaeVars, codeVars, trainVars>>
    \/ \E l \in LoaderNames :
         Two_next_batch(l) /\ UNCHANGED <<loaderVars, mfaeVars, codeVars, trainVars>>
SpecTwo == InitTwo /\ [][NextTwo]_vars

(***************************************************************************)
(* Properties of the Loader (checked under Spec)                           *)
(***************************************************************************)
\* Number of rows in the batches of o.
RowsYielded(o) == ISum([k \in 1..Len(o) |-> Len(o[k].xs)], 1, Len(o))

\* The 1-based row numbers a batch covers.
RowSet(b) == (b.off + 1)..(b.off + Len(b.xs))

\* The user ids in the rows of a batch.
UsersOf(b) == {b.xs[j] : j \in 1..Len(b.xs)}

\* Each user's rows are adjacent in xx.
Contiguous(xx) ==
    \A i, j, k \in 1..Len(xx) : (i < j /\ j < k /\ xx[i] = xx[k]) => xx[j] = xx[i]

\* C1: when a traversal has run to StopIteration, the batches it yielded
\* hold floor(N/B)*B rows in all and their number is len(loader), for every
\* N and B, exact multiples included.
C1_TraversalYieldsEveryFullBatch ==
    (stopped /\ iterAt # "none") =>
        /\ RowsYielded(out) = (Len(y) \div batchsize) * batchsize
        /\ Len(out) = Loader_len

\* C2: without shuffling, over arrays in which each user's rows are
\* adjacent, no user id appears in two different batches of one traversal.
C2_UserBlockInOneBatch ==
    (~do_shuffle /\ Contiguous(x)) =>
        \A k1, k2 \in 1..Len(out) :
            k1 < k2 => UsersOf(out[k1]) \cap UsersOf(out[k2]) = {}

\* C7: without shuffling, the k-th batch of a traversal (k counted from 0)
\* has exactly B rows and is rows [k*B, (k+1)*B) of both x and y, and no
\* row is in two batches.
C7_BatchesAreFullSlicesInOrder ==
    ~do_shuffle =>
        \A k \in 1..Len(out) :
            LET b == out[k] IN
            /\ b.off = (k - 1) * batchsize
            /\ Len(b.xs) = batchsize
            /\ Len(b.ys) = batchsize
            /\ b.off + batchsize <= Len(x)
            /\ \A j \in 1..batchsize :
                 b.xs[j] = x[b.off + j] /\ b.ys[j] = y[b.off + j]
            /\ \A k2 \in 1..(k - 1) : RowSet(out[k2]) \cap RowSet(b) = {}

\* C7 happens: a traversal without shuffling yielded two batches and ended.
C7_Witness == ~do_shuffle /\ Len(out) >= 2 /\ stopped /\ batchsize < Len(x)

\* C8: with shuffling, after construction and after any number of __iter__
\* calls, the rows of x and y are the original (x row, y row) pairs, as a
\* multiset, and every batch holds the same rows of x and of y.
C8_ShuffleKeepsRowsPaired ==
    do_shuffle =>
        /\ Len(x) = Len(y)
        /\ PairBag(x, y) = pairs0
        /\ \A k \in 1..Len(out) :
             LET b == out[k] IN
             /\ Len(b.xs) = Len(b.ys)
             /\ \A j \in 1..Len(b.xs) :
                  /\ b.xs[j] = x[b.off + j]
                  /\ b.ys[j] = y[b.off + j]
                  /\ <<b.xs[j], b.ys[j]>> \in DOMAIN pairs0

\* C8 happens: a shuffling loader over two different pairs was restarted
\* after a complete traversal and yielded a batch.
C8_Witness ==
    /\ do_shuffle
    /\ iterAt = "done"
    /\ lop = "next"
    /\ Len(out) >= 1
    /\ Cardinality(DOMAIN pairs0) = 2
    /\ x[1] # x[2] /\ y[1] # y[2]

\* C9: every __iter__ call sets the cursor to 0 and returns the loader
\* itself; without shuffling every traversal yields the batches of the
\* first complete traversal, in the same order.
C9_IterRestartsAtZero ==
    [][ /\ (lop' = "iter" => (current' = 0 /\ iterRet' = LoaderId))
        /\ ((~do_shuffle' /\ hasFirst') =>
               /\ Len(out') <= Len(first')
               /\ \A k \in 1..Len(out') : out'[k] = first'[k]
               /\ (stopped' => out' = first')) ]_vars

\* C9 happens: __iter__ was called in the middle of a traversal that came
\* after a complete one, and the traversal that followed ran to the end.
C9_Witness ==
    /\ ~do_shuffle
    /\ hasFirst
    /\ iterAt = "mid"
    /\ stopped
    /\ Len(out) >= 1
    /\ iterRet = LoaderId

(***************************************************************************)
(* Properties of the MFAE (checked under SpecMFAE)                         *)
(***************************************************************************)
\* A forward pass has been made and its result is at hand.
Scored == mop \in {"forward", "loss"}

\* Every event of user u in the batch was masked in the last forward pass.
AllMasked(u) ==
    \A j \in 1..Len(indices) : indices[j].user = u => ~Mask(draws)[j]

\* C3: the forward pass returns one prediction per event, in input order:
\* row i is user_bias_mean[user_i] + decoder_bias[item_i]
\* + dot(user_vect_mean[user_i], decoder_vect[item_i]), for masked and for
\* visible events alike.
C3_OnePredictionPerEventInOrder ==
    Scored =>
        LET ubm == user_bias_mean(indices, draws)
            uvm == user_vect_mean(indices, draws)
        IN
        /\ Len(log_odds) = Len(indices)
        /\ \A i \in 1..Len(indices) :
             LET u == indices[i].user
                 it == indices[i].item
             IN  log_odds[i] =
                    RAdd(RAdd(ubm[u][1], RInt(decoder_bias[it][1])),
                         RowDot(decoder_vect[it], uvm[u]))

\* C3 happens: a batch of two users and two items, one event masked and
\* one visible, has been scored, the user rows differing.
C3_Witness ==
    /\ mop = "forward"
    /\ Len(indices) = 2
    /\ indices[1].user # indices[2].user
    /\ indices[1].item # indices[2].item
    /\ Mask(draws)[1] /\ ~Mask(draws)[2]
    /\ user_bias_mean(indices, draws)[indices[1].user]
         # user_bias_mean(indices, draws)[indices[2].user]
    /\ log_odds[1] # log_odds[2]

\* C4: with frac = 0.0 every event is visible whatever torch.rand drew, so
\* the predictions are the same for every outcome of the draws.
C4_FracZeroLeavesNoRandomness ==
    (mop = "forward" /\ frac = FracEval) =>
        /\ \A i \in 1..Len(indices) : Mask(draws)[i]
        /\ \A d2 \in [1..Len(indices) -> Draws] : MFAE_call(indices, d2) = log_odds

\* C5: a user all of whose events are masked has mean bias 0 and mean
\* vector 0, and each of the user's predictions is the decoder bias of the
\* event's item.
C5_AllMaskedUserGetsDecoderBias ==
    Scored =>
        LET ubm == user_bias_mean(indices, draws)
            uvm == user_vect_mean(indices, draws)
        IN
        \A i \in 1..Len(indices) :
            LET u == indices[i].user IN
            AllMasked(u) =>
                /\ ubm[u][1] = RInt(0)
                /\ \A j \in 1..KDim : uvm[u][j] = RInt(0)
                /\ log_odds[i] = RInt(decoder_bias[indices[i].item][1])

\* C5 happens: one user of the batch is fully masked while its encoder rows
\* are not zero, the other user is visible.
C5_Witness ==
    /\ mop = "forward"
    /\ Len(indices) = 2
    /\ indices[1].user # indices[2].user
    /\ ~Mask(draws)[1] /\ Mask(draws)[2]
    /\ encoder_bias[item_code(indices[1])][1] # 0
    /\ encoder_vect[item_code(indices[1])][1] # 0
    /\ decoder_vect[indices[1].item][1] # 0
    /\ log_odds[1] = RInt(decoder_bias[indices[1].item][1])

\* C6: loss = MSE + c*sum(encoder_vect^2) + c*sum(decoder_vect^2); it is
\* non-negative, equals the MSE when c = 0, and is the same whatever the
\* two bias tables hold.
C6_LossIsMsePlusVectorPenalty ==
    mop = "loss" =>
        LET mse == mse_loss(log_odds, target)
            penalty == c_vector * l2_regularize(encoder_vect)
                       + c_vector * l2_regularize(decoder_vect)
        IN
        /\ total = RAdd(mse, RInt(penalty))
        /\ RNonNeg(total)
        /\ RNonNeg(mse)
        /\ (c_vector = 0 => total = mse)
        /\ \A s \in {t \in Seeds : TableChoices[t].eb # encoder_bias} :
             MFAE_loss([Self EXCEPT !.encoder_bias = TableChoices[s].eb,
                                    !.decoder_bias = TableChoices[s].db],
                       log_odds, target) = total

\* C6 happens: a loss with c > 0, a positive MSE and a positive penalty.
C6_Witness ==
    /\ mop = "loss"
    /\ c_vector = 1
    /\ Len(indices) = 2
    /\ mse_loss(log_odds, target)[1] > 0
    /\ total # mse_loss(log_odds, target)
    /\ \E s \in Seeds :
         l2_regularize(TableChoices[s].eb) # l2_regularize(encoder_bias)

\* C10: a forward pass and a loss evaluation leave the four tables and frac
\* as they were; the tables change only in the optimizer step.
C10_ForwardAndLossOnlyRead ==
    [][ /\ (mop' \in {"forward", "loss"} =>
               (tableVars' = tableVars /\ frac' = frac))
        /\ (tableVars' # tableVars => mop' = "step") ]_vars

\* C10 happens: after frac was set to 0.0, a forward pass on two events was
\* made and a loss computed from it.
C10_Witness ==
    /\ mop = "loss"
    /\ frac = FracEval
    /\ Len(indices) = 2
    /\ total # NoValue

\* The positions of the events of user u that the mask left visible.
VisibleOf(u) == {i \in 1..Len(indices) : indices[i].user = u /\ Mask(draws)[i]}

\* The user ids present in the batch.
UsersInBatch == {indices[i].user : i \in 1..Len(indices)}

\* C11: for every user present in the batch, the mean bias and the mean
\* vector are the sums of the encoder rows of the user's visible events
\* divided by (number of the user's visible events + 1).
C11_MeanDividesByVisibleCountPlusOne ==
    Scored =>
        LET ubs == user_bias_sum(indices, draws)
            uvs == user_vect_sum(indices, draws)
            ubm == user_bias_mean(indices, draws)
            uvm == user_vect_mean(indices, draws)
        IN
        \A u \in UsersInBatch :
            LET n == Cardinality(VisibleOf(u)) + 1 IN
            /\ ubm[u][1] = Rat(ubs[u][1], n)
            /\ \A j \in 1..KDim : uvm[u][j] = Rat(uvs[u][j], n)

\* C12: within one forward pass two events of the same user get the same
\* mean bias and mean vector, so their predictions differ by the difference
\* of the decoder biases plus the difference of the decoder vectors dotted
\* with the user's mean vector; events of one user whose items have equal
\* decoder rows (the same item in particular) get equal predictions.
C12_SameUserSharesAggregate ==
    mop = "forward" =>
        LET uvm == user_vect_mean(indices, draws)
            dec == [i \in 1..Len(indices) |->
                      RAdd(RInt(decoder_bias[indices[i].item][1]),
                           RowDot(decoder_vect[indices[i].item],
                                  uvm[indices[i].user]))]
        IN
        \A i, j \in 1..Len(indices) :
            (i < j /\ indices[i].user = indices[j].user) =>
                LET a == indices[i].item
                    b == indices[j].item
                IN
                /\ RSub(log_odds[i], log_odds[j]) = RSub(dec[i], dec[j])
                /\ (decoder_bias[a] = decoder_bias[b]
                      /\ decoder_vect[a] = decoder_vect[b])
                        => log_odds[i] = log_odds[j]

\* C12 happens: one user has two events on two items in the batch, one
\* masked and one visible, the user's mean bias is not zero and the two
\* predictions differ.
C12_Witness ==
    /\ mop = "forward"
    /\ Len(indices) = 2
    /\ indices[1].user = indices[2].user
    /\ indices[1].user = MaxUser
    /\ indices[1].item # indices[2].item
    /\ ~Mask(draws)[1] /\ Mask(draws)[2]
    /\ user_bias_mean(indices, draws)[indices[1].user][1] # RInt(0)
    /\ log_odds[1] # log_odds[2]

\* C13: on a non-empty batch the per-user aggregates and the count vector
\* all have max(user id in the batch) + 1 rows, numbered from 0, and every
\* event's user id is one of these rows, whatever the mask hid.
C13_UserLookupWithinAggregate ==
    mop = "forward" =>
        LET top == CHOOSE u \in UsersInBatch : \A v \in UsersInBatch : v <= u
            rows == 0..top
        IN
        /\ Len(indices) >= 1
        /\ n_user_max(indices) = top + 1
        /\ DOMAIN user_bias_mean(indices, draws) = rows
        /\ DOMAIN user_vect_mean(indices, draws) = rows
        /\ DOMAIN count(indices) = rows
        /\ \A i \in 1..Len(indices) : user_idx(indices)[i] \in rows

\* C13 happens: a batch that holds only user 0 although the data set has
\* more users, every event masked, has been scored.
C13_Witness ==
    /\ mop = "forward"
    /\ Len(indices) = 2
    /\ UsersInBatch = {0}
    /\ MaxUser > 0
    /\ \A i \in 1..Len(indices) : ~Mask(draws)[i]
    /\ Len(log_odds) = 2

\* C17: once __next__ has raised StopIteration, a further __next__ raises
\* it again and leaves the cursor, the arrays and the batches yielded as
\* they were, until __iter__ is called; a __next__ that does not raise
\* yields one batch of exactly batchsize rows, never a shorter one.
C17_StopIterationRepeatsUntilIter ==
    [][ /\ (lop' = "next" /\ stopped) =>
               /\ stopped'
               /\ current' = current
               /\ x' = x /\ y' = y
               /\ out' = out
        /\ (lop' = "next" /\ ~stopped') =>
               /\ Len(out') = Len(out) + 1
               /\ Len(out'[Len(out')].xs) = batchsize
               /\ Len(out'[Len(out')].ys) = batchsize
        /\ (stopped /\ ~stopped') => lop' = "iter" ]_vars

\* C17 happens: after a batch was yielded, two __next__ calls in a row
\* raised StopIteration while rows, too few for a batch, were left over.
C17_Witness ==
    /\ again /\ stopped /\ lop = "next"
    /\ Len(out) >= 1
    /\ current < Len(y)
    /\ current = Len(out) * batchsize

(***************************************************************************)
(* Properties of the item code (checked under SpecCode)                    *)
(***************************************************************************)
\* The rating level of row i: the integer the code is built from.
LevelOf(i) == astype_int(train_y[i])

\* C15: for item ids >= 0 and rating levels 0..9 the item code identifies
\* the (item, level) pair: two rows get the same code only if they have the
\* same item and the same level, and item and level can be read back off
\* the code.
C15_ItemCodeIdentifiesItemAndLevel ==
    cop = "code" =>
        \A i, j \in 1..Len(train_x) :
            (LevelOf(i) \in 0..9 /\ LevelOf(j) \in 0..9) =>
                /\ (train_x[i][3] = train_x[j][3]) <=>
                      (train_x[i][2] = train_x[j][2] /\ LevelOf(i) = LevelOf(j))
                /\ train_x[i][3] \div RatingBase = train_x[i][2]
                /\ train_x[i][3] % RatingBase = LevelOf(i)

\* C15 happens: item 0 at level 9 and item 1 at level 0 were coded, to the
\* neighbouring codes 9 and 10.
C15_Witness ==
    /\ cop = "code"
    /\ Len(train_x) = 2
    /\ train_x[1][2] = 0 /\ LevelOf(1) = 9
    /\ train_x[2][2] = 1 /\ LevelOf(2) = 0
    /\ train_x[1][3] + 1 = train_x[2][3]

\* C16: with the tables sized as the notebook sizes them, every row whose
\* item id is an index of the decoder tables (0..n_item) and whose level is
\* in 0..9 has an item code below n_item * 10 + 1, the number of rows of the
\* encoder tables.
C16_ItemCodeWithinEncoderTable ==
    cop = "code" =>
        \A i \in 1..Len(train_x) :
            (train_x[i][2] \in 0..n_item /\ LevelOf(i) \in 0..9) =>
                train_x[i][3] < n_item_enc

(***************************************************************************)
(* Properties of the training run (checked under SpecTrain)                *)
(***************************************************************************)
\* The mask of the forward pass whose batch and draws the state holds.
MaskOfPass == Mask(draws)

\* C14: with the validation handler on EPOCH_COMPLETED, every forward pass
\* of the trainer runs with frac = 0.5 and every forward pass of the
\* evaluator with frac = 0.0; frac changes only in the handler, to 0.0
\* before the evaluation traversal and back to 0.5 after it, once per
\* epoch.
C14_TrainerMasksEvaluatorDoesNot ==
    [][ /\ (pc' = "train_fwd" /\ pc = "train") =>
               /\ frac = FracTrain /\ frac' = FracTrain
               /\ evals' = epoch' - 1
               /\ \A i \in 1..Len(draws') :
                    MaskOfPass'[i] = (draws'[i] > FracTrain)
        /\ (pc' = "eval_fwd" /\ pc = "eval") =>
               /\ frac = FracEval /\ frac' = FracEval
               /\ evals' = epoch' - 1
               /\ \A i \in 1..Len(draws') :
                    MaskOfPass'[i] = (draws'[i] > FracEval)
        /\ (frac' # frac) =>
               \/ pc = "train" /\ pc' = "eval" /\ frac' = FracEval
               \/ pc = "eval" /\ pc' \in {"train", "done"}
                    /\ frac' = FracTrain /\ evals' = epoch
        /\ (pc = "eval" /\ pc' # "eval") => (pc' = "eval_fwd" \/ frac' = FracTrain)
      ]_vars

\* C14 happens: in the second epoch, after one evaluation traversal that
\* scored a batch, the trainer made a forward pass that masked an event.
C14_Witness ==
    /\ pc = "train_fwd"
    /\ epoch = 2
    /\ evals = 1
    /\ frac = FracTrain
    /\ \E i \in 1..Len(indices) : ~Mask(draws)[i]

RECURSIVE OwnPositions(_, _, _)
\* The positions k..Len(ind) of the batch that hold events of user u, in
\* order.
OwnPositions(ind, u, k) ==
    IF k > Len(ind) THEN << >>
    ELSE (IF ind[k].user = u THEN <<k>> ELSE << >>) \o OwnPositions(ind, u, k + 1)

\* C18: the predictions for one user's events depend only on that user's
\* own events in the batch, their mask outcomes and the tables: they are
\* the predictions the same tables give for the batch with every other
\* user's event removed, so two batches that agree on the user's events
\* and draws, however the other users' events were replaced, added or
\* removed, give the user the same predictions.
C18_UserPredictionsIgnoreOtherUsers ==
    pc \in {"train_fwd", "eval_fwd"} =>
        \A u \in UsersInBatch :
            LET own == OwnPositions(indices, u, 1)
                alone == [k \in 1..Len(own) |-> indices[own[k]]]
                alone_draws == [k \in 1..Len(own) |-> draws[own[k]]]
            IN  MFAE_call(alone, alone_draws)
                  = [k \in 1..Len(own) |-> log_odds[own[k]]]

\* C18 happens: the trainer scored a batch of two users, the higher user id
\* first, both events visible and both users' mean bias and vector not
\* zero.
C18_Witness ==
    /\ pc = "train_fwd"
    /\ Len(indices) = 2
    /\ indices[1].user > indices[2].user
    /\ Mask(draws)[1] /\ Mask(draws)[2]
    /\ \A i \in 1..2 :
         /\ user_bias_mean(indices, draws)[indices[i].user][1] # RInt(0)
         /\ user_vect_mean(indices, draws)[indices[i].user][1] # RInt(0)

(***************************************************************************)
(* Properties of the two Loader objects (checked under SpecTwo)            *)
(***************************************************************************)
\* The cursor each object would read.
CursorOf == [l \in LoaderNames |-> ReadCurrent(l)]

\* C19: the two Loader objects keep independent cursors although current
\* is declared in the class body: in any interleaving of __iter__ and
\* __next__ calls, a call on one object changes neither the cursor nor the
\* state of the other, the class attribute stays 0, and the batches each
\* object yields are the consecutive slices of its own arrays.
C19_LoaderCursorsAreIndependent ==
    /\ [](/\ Loader_current = 0
          /\ \A l \in LoaderNames :
               /\ CursorOf[l] = Len(loaders[l].out) * loaders[l].batchsize
               /\ \A k \in 1..Len(loaders[l].out) :
                    LET b == loaders[l].out[k]
                        n == loaders[l].batchsize
                    IN  /\ b.off = (k - 1) * n
                        /\ b.xs = SubSeq(loaders[l].x, b.off + 1, b.off + n)
                        /\ b.ys = SubSeq(loaders[l].y, b.off + 1, b.off + n))
    /\ [][ \A l \in LoaderNames :
              call'.obj # l =>
                  (CursorOf'[l] = CursorOf[l] /\ loaders'[l] = loaders[l]) ]_vars

\* C19 happens: train_loader was never given to __iter__ and has yielded a
\* batch, test_loader was then traversed to StopIteration after yielding a
\* batch, and the two cursors differ.
C19_Witness ==
    /\ call = [obj |-> "test_loader", op |-> "next"]
    /\ loaders["test_loader"].stopped
    /\ Len(loaders["test_loader"].out) >= 1
    /\ Len(loaders["train_loader"].out) = 1
    /\ ~loaders["train_loader"].stopped
    /\ CursorOf["train_loader"] # CursorOf["test_loader"]
    /\ CursorOf["train_loader"] + loaders["train_loader"].batchsize
          < Len(loaders["train_loader"].y)

====
